---- MODULE Spec2Model ----
(***************************************************************************)
(* Model of the CalcVis application (LouWare/Mathe-Zeichner): the state of *)
(* the App component (src/App.tsx), its event handlers and its reactive    *)
(* effect, and the numerical engine of src/utils/mathUtils.ts.             *)
(*                                                                         *)
(* Numbers.  A JavaScript number is modelled as an exact extended          *)
(* rational <<n, d>> in lowest terms with d >= 0: d > 0 is the finite      *)
(* value n/d, <<1,0>> and <<-1,0>> are +Infinity and -Infinity and <<0,0>> *)
(* is NaN.  Rounding of IEEE doubles is not modelled (the arithmetic is    *)
(* exact), and -0 is identified with 0.  The value undefined (a property   *)
(* that an object does not have) is the empty tuple.                       *)
(***************************************************************************)
EXTENDS Integers, Sequences, FiniteSets, TLC

VARIABLES
    functionPoints,    \* App state: PRIMARY, f(x)               (App.tsx:25)
    derivativePoints,  \* App state: DERIVATIVE, f'(x)           (App.tsx:26)
    integralPoints,    \* App state: ANTIDERIVATIVE, F(x)        (App.tsx:27)
    isAnalyzing,       \* App state: an AI request is in flight  (App.tsx:29)
    aiAnalysis,        \* App state: the AI text, or Null        (App.tsx:30)
    mounted,           \* the mount effect (App.tsx:33-35) has run
    effectPending,     \* functionPoints changed and the effect of
                       \* App.tsx:38-43 has not run yet
    lastEvent,         \* history: the last handler that ran, with its arguments
    before,            \* history: the three sequences when that handler started
    prevAfter,         \* history: content of the array object `prev` when the
                       \* updater of handleFunctionDrag returned
    nEvents,           \* history: number of user events handled so far
    aiRequest,         \* the points handed to analyzeGraph by the last request
    aiCalls,           \* history: number of calls of ai.models.generateContent
    aiOutcome,         \* history: how the last of these calls ended
    pureIn,            \* harness of the pure functions: the input sequence,
    pureC,             \*   the constant of integration,
    pureOp,            \*   the function applied ("none" before it is applied),
    pureOut            \*   and its result

engineVars == <<functionPoints, derivativePoints, integralPoints>>
aiVars     == <<isAnalyzing, aiAnalysis>>
ctlVars    == <<mounted, effectPending>>
histVars   == <<lastEvent, before, prevAfter, nEvents>>
pureVars   == <<pureIn, pureC, pureOp, pureOut>>
callVars   == <<aiRequest, aiCalls, aiOutcome>>
vars       == <<engineVars, aiVars, ctlVars, histVars, pureVars, callVars>>

----------------------------------------------------------------------------
(* Bounds of the model *)

\* Number of samples of a preset.  The application samples 15 points
\* (POINTS_COUNT, App.tsx:12); the model samples fewer.
POINTS_COUNT == 3

\* User events (preset loads, drags, analysis requests) per behaviour.
MaxEvents == 2

\* Longest input sequence handed to the pure functions in SpecPure.
MaxLen == 3

----------------------------------------------------------------------------
(* JavaScript numbers as exact extended rationals *)

NaN == <<0, 0>>
Undefined == <<>>
Null == "null"

R(n) == <<n, 1>>
Zero == R(0)

Abs(n) == IF n < 0 THEN -n ELSE n
Sgn(n) == IF n < 0 THEN -1 ELSE IF n > 0 THEN 1 ELSE 0

RECURSIVE GCD(_, _)
GCD(a, b) == IF b = 0 THEN a ELSE GCD(b, a % b)

\* n/d in lowest terms with a non-negative denominator
Norm(n, d) ==
    IF d = 0 THEN <<Sgn(n), 0>>
    ELSE LET g == GCD(Abs(n), Abs(d))
             s == IF d < 0 THEN -1 ELSE 1
         IN  <<(s * n) \div g, (s * d) \div g>>

\* ToNumber: undefined converts to NaN in arithmetic
ToNumber(v) == IF v = Undefined THEN NaN ELSE v

RNeg(a) == <<-a[1], a[2]>>

\* a + b   (Infinity + -Infinity = NaN, NaN + x = NaN)
RAdd(a, b) ==
    IF a[2] = 0 /\ b[2] = 0
    THEN IF a = b THEN a ELSE NaN
    ELSE Norm(a[1] * b[2] + b[1] * a[2], a[2] * b[2])

\* a - b
RSub(a, b) == RAdd(a, RNeg(b))

\* a * b   (0 * Infinity = NaN)
RMul(a, b) == Norm(a[1] * b[1], a[2] * b[2])

\* a / b   (x / 0 = +-Infinity, 0 / 0 = NaN)
RDiv(a, b) == RMul(a, Norm(b[2], b[1]))

\* a < b on finite values
RLess(a, b) == a[1] * b[2] < b[1] * a[2]

\* A strictly increasing sequence of finite x-values
StrictlyIncreasingX(points) ==
    /\ \A i \in 1..Len(points) : points[i].x # Undefined /\ points[i].x[2] > 0
    /\ \A i \in 1..(Len(points) - 1) : RLess(points[i].x, points[i + 1].x)

\* Point { x: number; y: number }
Point(x, y) == [x |-> x, y |-> y]

----------------------------------------------------------------------------
(* src/utils/mathUtils.ts *)

\* The preset functions (PRESETS[..].func, App.tsx:15-22).  Math.sin and
\* Math.cos are transcendental: the model evaluates their Taylor polynomials
\* x - x^3/6 and 1 - x^2/2, which are rational on rational x.
PresetFunc(func, x) ==
    CASE func = "Sinus"    -> RSub(x, RDiv(RMul(RMul(x, x), x), R(6)))
      [] func = "Cosinus"  -> RSub(R(1), RDiv(RMul(x, x), R(2)))
      [] func = "Parabel"  -> RSub(RMul(RMul(<<1, 2>>, x), x), R(2))
      [] func = "Kubisch"  -> RMul(RMul(RMul(<<1, 5>>, x), x), x)
      [] func = "Linear"   -> x
      [] func = "Konstant" -> R(1)

\* generateFunctionPoints(func, minX, maxX, steps)
generateFunctionPoints(func, minX, maxX, steps) ==
    LET stepSize == RDiv(RSub(maxX, minX), R(steps - 1))
    IN  [k \in 1..steps |->
            LET x == RAdd(minX, RMul(R(k - 1), stepSize))
            IN  Point(x, PresetFunc(func, x))]

\* Mutant of Slope: the forward difference at interior points too
SlopeOneSided(points, k) ==
    LET X(j) == ToNumber(points[j].x)
        Y(j) == ToNumber(points[j].y)
    IN  IF k = Len(points)
        THEN RDiv(RSub(Y(k), Y(k - 1)), RSub(X(k), X(k - 1)))
        ELSE RDiv(RSub(Y(k + 1), Y(k)), RSub(X(k + 1), X(k)))

\* Mutant of Slope: the central difference divided by one step, not two
SlopeHalfSpan(points, k) ==
    LET X(j) == ToNumber(points[j].x)
        Y(j) == ToNumber(points[j].y)
    IN  IF k = 1
        THEN RDiv(RSub(Y(k + 1), Y(k)), RSub(X(k + 1), X(k)))
        ELSE IF k = Len(points)
        THEN RDiv(RSub(Y(k), Y(k - 1)), RSub(X(k), X(k - 1)))
        ELSE RDiv(RSub(Y(k + 1), Y(k - 1)), RSub(X(k + 1), X(k)))

\* The slope calculateDerivative computes at the 1-based position k
\* (the source's i is k - 1)
Slope(points, k) ==
    LET X(j) == ToNumber(points[j].x)
        Y(j) == ToNumber(points[j].y)
    IN  IF k = 1
        THEN RDiv(RSub(Y(k + 1), Y(k)), RSub(X(k + 1), X(k)))
        ELSE IF k = Len(points)
        THEN RDiv(RSub(Y(k), Y(k - 1)), RSub(X(k), X(k - 1)))
        ELSE RDiv(RSub(Y(k + 1), Y(k - 1)), RSub(X(k + 1), X(k - 1)))

calculateDerivative(points) ==
    IF Len(points) < 2 THEN <<>>
    ELSE [k \in 1..Len(points) |-> Point(points[k].x, Slope(points, k))]

\* accumulatedArea after the loop iteration that pushes the 1-based position k
RECURSIVE AccumulatedArea(_, _, _)
AccumulatedArea(points, initialC, k) ==
    IF k = 1 THEN initialC
    ELSE LET dx == RSub(ToNumber(points[k].x), ToNumber(points[k - 1].x))
             avgHeight == RDiv(RAdd(ToNumber(points[k].y),
                                    ToNumber(points[k - 1].y)), R(2))
         IN  RAdd(AccumulatedArea(points, initialC, k - 1), RMul(avgHeight, dx))

\* Mutant of calculateIntegral: the running total starts at 0, not at initialC
calculateIntegralFromZero(points, initialC) ==
    IF Len(points) < 1 THEN <<>>
    ELSE [k \in 1..Len(points) |->
            Point(points[k].x, AccumulatedArea(points, Zero, k))]

calculateIntegral(points, initialC) ==
    IF Len(points) < 1 THEN <<>>
    ELSE [k \in 1..Len(points) |->
            Point(points[k].x, AccumulatedArea(points, initialC, k))]

----------------------------------------------------------------------------
(* src/App.tsx *)

\* Range settings.  The application samples [-Math.PI, Math.PI]; pi is
\* irrational, and the model samples the interval [-1, 1].
MIN_X == R(-1)
MAX_X == R(1)

PRESETS == <<"Sinus", "Cosinus", "Parabel", "Kubisch", "Linear", "Konstant">>

\* The results of analyzeGraph (geminiService.ts:32, 35)
NoAnalysisText == "Konnte keine Analyse generieren."
ErrorText == "Entschuldigung, beim Analysieren des Graphen ist ein Fehler aufgetreten. Bitte überprüfe deinen API-Schlüssel."
AnalysisResults == {"response.text", NoAnalysisText, ErrorText}

\* How a call of ai.models.generateContent ends: a response with a text, a
\* response whose text is empty or missing, or an exception
CallOutcomes == {"text", "empty", "error"}

\* p.x.toFixed(1), p.y.toFixed(1) on the points of even 0-based index
\* (geminiService.ts:8, before the try): a TypeError when x or y is undefined
PromptThrows(points) ==
    \E k \in 1..Len(points) :
        /\ (k - 1) % 2 = 0
        /\ (points[k].x = Undefined \/ points[k].y = Undefined)

\* Mutant of analyzeGraph: the catch block returns the other fallback
analyzeGraphWrongFallback(outcome) ==
    CASE outcome = "text"  -> "response.text"
      [] outcome = "empty" -> NoAnalysisText
      [] outcome = "error" -> NoAnalysisText

\* What analyzeGraph resolves to after its one call of generateContent
\* (try: response.text || NoAnalysisText; catch: ErrorText, no second call)
analyzeGraph(outcome) ==
    CASE outcome = "text"  -> "response.text"
      [] outcome = "empty" -> NoAnalysisText
      [] outcome = "error" -> ErrorText

\* arr[index] for a 0-based index: undefined outside the array
ArrayRead(arr, index) ==
    IF index \in 0..(Len(arr) - 1) THEN arr[index + 1] ELSE Undefined

\* arr[index] = value for a 0-based index: an index in range replaces the
\* element, index = length appends, and a negative index sets a property
\* that is no element of the array.  (index > length would leave holes;
\* no action draws such an index.)
ArrayWrite(arr, index, value) ==
    IF index \in 0..(Len(arr) - 1) THEN [arr EXCEPT ![index + 1] = value]
    ELSE IF index = Len(arr) THEN Append(arr, value)
    ELSE arr

\* Mutant of SpreadWithY: { y: newY }, the spread forgotten
SpreadWithYNoSpread(elem, newY) == Point(Undefined, newY)

\* { ...elem, y: newY }: spreading undefined gives an object with only y
SpreadWithY(elem, newY) ==
    IF elem = Undefined THEN Point(Undefined, newY) ELSE Point(elem.x, newY)

\* Mutant of WithPointY: the drag's value is added to the point's y
WithPointYAdded(arr, index, newY) ==
    LET elem == ArrayRead(arr, index)
    IN  ArrayWrite(arr, index,
            IF elem = Undefined THEN Point(Undefined, newY)
            ELSE Point(elem.x, RAdd(elem.y, newY)))

\* const copy = [...arr]; copy[index] = { ...copy[index], y: newY }
WithPointY(arr, index, newY) ==
    ArrayWrite(arr, index, SpreadWithY(ArrayRead(arr, index), newY))

\* Mutant of FunctionDragUpdater: prev[index].y = newY; return [...prev]
FunctionDragUpdaterInPlace(prev, index, newY) ==
    LET written == ArrayWrite(prev, index,
                       SpreadWithY(ArrayRead(prev, index), newY))
    IN  [next |-> written, prev |-> written]

\* The updater of handleFunctionDrag: `next` is the array it returns and
\* `prev` the content of the array it was given, when it returns
FunctionDragUpdater(prev, index, newY) ==
    [next |-> WithPointY(prev, index, newY), prev |-> prev]

\* Mutant of StartY: the constant of integration left at its default
StartYDefault(points) == Zero

\* functionPoints[0]?.y || 0
StartY(points) ==
    LET y == IF Len(points) = 0 THEN Undefined ELSE points[1].y
    IN  IF y \in {Undefined, NaN, Zero} THEN Zero ELSE y

\* Mutant of ReconstructFromDerivative: derivativePoints integrated, not the
\* modified copy
ReconstructFromDerivativeUnmodified(derivative, points, index, newY) ==
    calculateIntegral(derivative, StartY(points))

\* What handleDerivativeDrag passes to setFunctionPoints
ReconstructFromDerivative(derivative, points, index, newY) ==
    LET modifiedDerivative == WithPointY(derivative, index, newY)
        startY == StartY(points)
    IN  calculateIntegral(modifiedDerivative, startY)

\* What handleIntegralDrag passes to setFunctionPoints
ReconstructFromIntegral(integral, index, newY) ==
    LET modifiedIntegral == WithPointY(integral, index, newY)
    IN  calculateDerivative(modifiedIntegral)

\* Mutant of EffectResult: only the derivative is refreshed
EffectResultOnlyDerivative(points, derivative, integral) ==
    IF Len(points) = 0
    THEN [derivativePoints |-> derivative, integralPoints |-> integral]
    ELSE [derivativePoints |-> calculateDerivative(points),
          integralPoints |-> integral]

\* The values the effect of App.tsx:38-43 sets for the given functionPoints
\* and current derived views (it returns early on an empty functionPoints)
EffectResult(points, derivative, integral) ==
    IF Len(points) = 0
    THEN [derivativePoints |-> derivative, integralPoints |-> integral]
    ELSE [derivativePoints |-> calculateDerivative(points),
          integralPoints |-> calculateIntegral(points, Zero)]

----------------------------------------------------------------------------
(* Inputs *)

\* The y-values a drag hands over (GraphContainer clamps them to [-10, 10])
NewYValues == {R(-1), Zero, R(2)}

InRange(arr) == 0..(Len(arr) - 1)
OutOfRange(arr) == {-1, Len(arr)}

Snapshot == [functionPoints |-> functionPoints,
             derivativePoints |-> derivativePoints,
             integralPoints |-> integralPoints]

Event(kind, index, newY) == [kind |-> kind, index |-> index, newY |-> newY]

\* x- and y-values of the inputs of the pure functions
XValues == {Zero, <<1, 2>>, R(1), R(2)}
YValues == {R(-1), Zero, <<1, 2>>, R(1), R(2), R(4)}

\* The sequences of length n over the points of XValues \X YValues
SeqsOfLen(n) == [1..n -> {Point(x, y) : x \in XValues, y \in YValues}]

\* Each carries strictly increasing x-values (the Point Sequence invariant)
PureInputs ==
    UNION {{s \in SeqsOfLen(n) : StrictlyIncreasingX(s)} : n \in 0..MaxLen}

----------------------------------------------------------------------------
(* The application *)

Init ==
    /\ functionPoints = <<>>
    /\ derivativePoints = <<>>
    /\ integralPoints = <<>>
    /\ isAnalyzing = FALSE
    /\ aiAnalysis = Null
    /\ mounted = FALSE
    /\ effectPending = FALSE
    /\ lastEvent = Event("none", 0, Zero)
    /\ before = [functionPoints |-> <<>>, derivativePoints |-> <<>>,
                 integralPoints |-> <<>>]
    /\ prevAfter = <<>>
    /\ nEvents = 0
    /\ pureIn = <<>>
    /\ pureC = Zero
    /\ pureOp = "none"
    /\ pureOut = <<>>
    /\ aiRequest = <<>>
    /\ aiCalls = 0
    /\ aiOutcome = "none"

\* setFunctionPoints(points) with a new array: React renders and schedules
\* the effect that depends on functionPoints
SetFunctionPoints(points) ==
    /\ functionPoints' = points
    /\ effectPending' = TRUE
    /\ UNCHANGED <<derivativePoints, integralPoints>>

\* loadPreset(preset)
loadPreset(preset) ==
    /\ SetFunctionPoints(generateFunctionPoints(preset, MIN_X, MAX_X, POINTS_COUNT))
    /\ aiAnalysis' = Null
    /\ UNCHANGED isAnalyzing

\* The effects of the first render: loadPreset(PRESETS[0]); the second
\* effect returns early, functionPoints being empty in that render
MountEffect ==
    /\ ~mounted
    /\ mounted' = TRUE
    /\ loadPreset(PRESETS[1])
    /\ lastEvent' = Event("load", 0, Zero)
    /\ before' = Snapshot
    /\ prevAfter' = <<>>
    /\ UNCHANGED <<nEvents, pureVars, callVars>>

\* A click on a preset button, or on the reset button (PRESETS[0])
ClickPreset ==
    /\ mounted
    /\ nEvents < MaxEvents
    /\ \E p \in 1..Len(PRESETS) : loadPreset(PRESETS[p])
    /\ lastEvent' = Event("load", 0, Zero)
    /\ before' = Snapshot
    /\ prevAfter' = <<>>
    /\ nEvents' = nEvents + 1
    /\ UNCHANGED <<mounted, pureVars, callVars>>

handleFunctionDrag(index, newY) ==
    /\ mounted
    /\ nEvents < MaxEvents
    /\ LET u == FunctionDragUpdater(functionPoints, index, newY)
       IN  /\ SetFunctionPoints(u.next)
           /\ prevAfter' = u.prev
    /\ lastEvent' = Event("function", index, newY)
    /\ before' = Snapshot
    /\ nEvents' = nEvents + 1
    /\ UNCHANGED <<aiVars, mounted, pureVars, callVars>>

handleDerivativeDrag(index, newY) ==
    /\ mounted
    /\ nEvents < MaxEvents
    /\ SetFunctionPoints(
           ReconstructFromDerivative(derivativePoints, functionPoints, index, newY))
    /\ lastEvent' = Event("derivative", index, newY)
    /\ before' = Snapshot
    /\ prevAfter' = <<>>
    /\ nEvents' = nEvents + 1
    /\ UNCHANGED <<aiVars, mounted, pureVars, callVars>>

handleIntegralDrag(index, newY) ==
    /\ mounted
    /\ nEvents < MaxEvents
    /\ SetFunctionPoints(ReconstructFromIntegral(integralPoints, index, newY))
    /\ lastEvent' = Event("integral", index, newY)
    /\ before' = Snapshot
    /\ prevAfter' = <<>>
    /\ nEvents' = nEvents + 1
    /\ UNCHANGED <<aiVars, mounted, pureVars, callVars>>

\* The effect on functionPoints (App.tsx:38-43)
RunEffect ==
    /\ effectPending
    /\ effectPending' = FALSE
    /\ LET r == EffectResult(functionPoints, derivativePoints, integralPoints)
       IN  /\ derivativePoints' = r.derivativePoints
           /\ integralPoints' = r.integralPoints
    /\ UNCHANGED <<functionPoints, aiVars, mounted, histVars, pureVars, callVars>>

\* handleAnalyze up to its await (the button is disabled while isAnalyzing):
\* analyzeGraph(functionPoints) builds its prompt and calls generateContent.
\* When building the prompt throws, analyzeGraph rejects without a call and
\* handleAnalyze never reaches the statements after its await.
handleAnalyze ==
    /\ mounted
    /\ ~isAnalyzing
    /\ nEvents < MaxEvents
    /\ isAnalyzing' = TRUE
    /\ aiAnalysis' = Null
    /\ nEvents' = nEvents + 1
    /\ aiRequest' = functionPoints
    /\ IF PromptThrows(functionPoints)
       THEN aiCalls' = aiCalls /\ aiOutcome' = "rejected"
       ELSE aiCalls' = aiCalls + 1 /\ aiOutcome' = "pending"
    /\ UNCHANGED <<engineVars, ctlVars, lastEvent, before, prevAfter, pureVars>>

\* The call of generateContent ends, analyzeGraph settles and handleAnalyze
\* resumes after its await
AnalyzeSettled ==
    /\ isAnalyzing
    /\ aiOutcome = "pending"
    /\ \E outcome \in CallOutcomes :
           /\ aiAnalysis' = analyzeGraph(outcome)
           /\ aiOutcome' = outcome
    /\ isAnalyzing' = FALSE
    /\ UNCHANGED <<engineVars, ctlVars, histVars, pureVars, aiRequest, aiCalls>>

\* Drags the Coordinate Mapper produces: the index of a rendered handle
FunctionDrag ==
    \E index \in InRange(functionPoints), newY \in NewYValues :
        handleFunctionDrag(index, newY)

DerivativeDrag ==
    \E index \in InRange(derivativePoints), newY \in NewYValues :
        handleDerivativeDrag(index, newY)

IntegralDrag ==
    \E index \in InRange(integralPoints), newY \in NewYValues :
        handleIntegralDrag(index, newY)

Next ==
    \/ MountEffect
    \/ ClickPreset
    \/ FunctionDrag
    \/ DerivativeDrag
    \/ IntegralDrag
    \/ RunEffect
    \/ handleAnalyze
    \/ AnalyzeSettled

Spec == Init /\ [][Next]_vars

----------------------------------------------------------------------------
(* The application driven by a caller that breaks the index contract *)

\* Drags with an index outside the targeted view: -1 or the view's length
FunctionDragOutOfRange ==
    \E index \in OutOfRange(functionPoints), newY \in NewYValues :
        handleFunctionDrag(index, newY)

DerivativeDragOutOfRange ==
    \E index \in OutOfRange(derivativePoints), newY \in NewYValues :
        handleDerivativeDrag(index, newY)

IntegralDragOutOfRange ==
    \E index \in OutOfRange(integralPoints), newY \in NewYValues :
        handleIntegralDrag(index, newY)

NextOutOfRange ==
    \/ Next
    \/ FunctionDragOutOfRange
    \/ DerivativeDragOutOfRange
    \/ IntegralDragOutOfRange

SpecOutOfRange == Init /\ [][NextOutOfRange]_vars

----------------------------------------------------------------------------
(* The pure functions of mathUtils.ts applied to bounded inputs *)

InitPure ==
    /\ functionPoints = <<>>
    /\ derivativePoints = <<>>
    /\ integralPoints = <<>>
    /\ isAnalyzing = FALSE
    /\ aiAnalysis = Null
    /\ mounted = FALSE
    /\ effectPending = FALSE
    /\ lastEvent = Event("none", 0, Zero)
    /\ before = [functionPoints |-> <<>>, derivativePoints |-> <<>>,
                 integralPoints |-> <<>>]
    /\ prevAfter = <<>>
    /\ nEvents = 0
    /\ pureIn \in PureInputs
    /\ pureC \in YValues
    /\ pureOp = "none"
    /\ pureOut = <<>>
    /\ aiRequest = <<>>
    /\ aiCalls = 0
    /\ aiOutcome = "none"

\* differentiate: calculateDerivative(pureIn)
ApplyDerivative ==
    /\ pureOp' = "calculateDerivative"
    /\ pureOut' = calculateDerivative(pureIn)
    /\ UNCHANGED <<pureIn, pureC, engineVars, aiVars, ctlVars, histVars, callVars>>

\* integrate: calculateIntegral(pureIn, pureC)
ApplyIntegral ==
    /\ pureOp' = "calculateIntegral"
    /\ pureOut' = calculateIntegral(pureIn, pureC)
    /\ UNCHANGED <<pureIn, pureC, engineVars, aiVars, ctlVars, histVars, callVars>>

\* differentiate, then integrate: calculateIntegral(calculateDerivative(pureIn), pureC)
ApplyRoundTrip ==
    /\ pureOp' = "roundTrip"
    /\ pureOut' = calculateIntegral(calculateDerivative(pureIn), pureC)
    /\ UNCHANGED <<pureIn, pureC, engineVars, aiVars, ctlVars, histVars, callVars>>

NextPure ==
    \/ ApplyDerivative
    \/ ApplyIntegral
    \/ ApplyRoundTrip

SpecPure == InitPure /\ [][NextPure]_vars

----------------------------------------------------------------------------
(* Properties *)

DragKinds == {"function", "derivative", "integral"}

\* The view a drag of the given kind targets, in the given snapshot
TargetView(snapshot, kind) ==
    CASE kind = "function"   -> snapshot.functionPoints
      [] kind = "derivative" -> snapshot.derivativePoints
      [] kind = "integral"   -> snapshot.integralPoints

\* seq with only the y-value at the 0-based index replaced by newY
OnlyYReplaced(seq, index, newY) ==
    [k \in 1..Len(seq) |->
        IF k = index + 1 THEN Point(seq[k].x, newY) ELSE seq[k]]

SameXValues(s, t) ==
    /\ Len(s) = Len(t)
    /\ \A k \in 1..Len(s) : s[k].x = t[k].x

\* C1: whenever the effect is not pending (the processing of every event so
\* far has completed), DERIVATIVE = calculateDerivative(PRIMARY) and
\* ANTIDERIVATIVE = calculateIntegral(PRIMARY, 0): both derived views are
\* those of the current PRIMARY, for every length of PRIMARY that occurs.
C1_ThreeWayConsistency ==
    ~effectPending =>
        /\ derivativePoints = calculateDerivative(functionPoints)
        /\ integralPoints = calculateIntegral(functionPoints, Zero)

\* A drag has been processed and has refreshed both derived views
C1_Witness ==
    /\ ~effectPending
    /\ lastEvent.kind \in DragKinds
    /\ nEvents = MaxEvents
    /\ derivativePoints # before.derivativePoints
    /\ integralPoints # before.integralPoints

\* C2: after an edit to DERIVATIVE made with a non-empty PRIMARY, the first
\* point of the new PRIMARY has the y-value PRIMARY[0] had before the edit.
C2_Anchoring ==
    (lastEvent.kind = "derivative" /\ Len(before.functionPoints) > 0) =>
        /\ Len(functionPoints) > 0
        /\ functionPoints[1].y = before.functionPoints[1].y

\* A derivative edit has replaced a PRIMARY whose first y-value was 0
C2_Witness ==
    /\ lastEvent.kind = "derivative"
    /\ Len(before.functionPoints) > 0
    /\ before.functionPoints[1].y = Zero
    /\ functionPoints # before.functionPoints

\* C3: after an edit to DERIVATIVE (index i, value v), PRIMARY is
\* calculateIntegral(D', c) with D' the DERIVATIVE before the edit with only
\* the y-value at i replaced by v, and c the y-value of PRIMARY[0] before it.
C3_DerivativeEdit ==
    lastEvent.kind = "derivative" =>
        functionPoints =
            calculateIntegral(
                OnlyYReplaced(before.derivativePoints, lastEvent.index,
                              lastEvent.newY),
                before.functionPoints[1].y)

\* A derivative edit of an interior point has changed PRIMARY
C3_Witness ==
    /\ lastEvent.kind = "derivative"
    /\ lastEvent.index = 1
    /\ before.functionPoints[1].y # Zero
    /\ functionPoints # before.functionPoints

\* C4: after an edit to ANTIDERIVATIVE (index i, value v), PRIMARY is
\* calculateDerivative(A') with A' the ANTIDERIVATIVE before the edit with
\* only the y-value at i replaced by v; it has the length and the x-values
\* of the old PRIMARY; and once the effect has run, both derived views are
\* those of the new PRIMARY.
C4_IntegralEdit ==
    lastEvent.kind = "integral" =>
        /\ functionPoints =
               calculateDerivative(
                   OnlyYReplaced(before.integralPoints, lastEvent.index,
                                 lastEvent.newY))
        /\ SameXValues(functionPoints, before.functionPoints)
        /\ ~effectPending =>
               /\ derivativePoints = calculateDerivative(functionPoints)
               /\ integralPoints = calculateIntegral(functionPoints, Zero)

\* An antiderivative edit has changed PRIMARY and has been fully processed
C4_Witness ==
    /\ lastEvent.kind = "integral"
    /\ functionPoints # before.functionPoints
    /\ ~effectPending
    /\ integralPoints # before.integralPoints

\* C5: after an edit to PRIMARY (index i, value v), PRIMARY has the length
\* it had, point i has its old x and y = v, every other point is unchanged,
\* and the array that held the previous PRIMARY still holds it.
C5_FunctionEdit ==
    lastEvent.kind = "function" =>
        /\ Len(functionPoints) = Len(before.functionPoints)
        /\ \A k \in 1..Len(functionPoints) :
               IF k = lastEvent.index + 1
               THEN /\ functionPoints[k].x = before.functionPoints[k].x
                    /\ functionPoints[k].y = lastEvent.newY
               ELSE functionPoints[k] = before.functionPoints[k]
        /\ prevAfter = before.functionPoints

\* A PRIMARY edit has changed the y-value of one point
C5_Witness ==
    /\ lastEvent.kind = "function"
    /\ functionPoints # before.functionPoints
    /\ functionPoints[lastEvent.index + 1].y = lastEvent.newY

\* C6: an edit whose index lies outside the view it targets changes none of
\* the three sequences, and no point without an x-value ever appears.
C6_OutOfRangeRejected ==
    /\ (/\ lastEvent.kind \in DragKinds
        /\ lastEvent.index \notin InRange(TargetView(before, lastEvent.kind)))
           => Snapshot = before
    /\ \A k \in 1..Len(functionPoints) : functionPoints[k].x # Undefined

\* C7: on an input of n points with strictly increasing x, calculateDerivative
\* returns the empty sequence for n < 2, and for n >= 2 a sequence of n
\* points with the input's x-values, whose y is the forward difference at
\* the first point, the backward difference at the last and the central
\* difference in between.
C7_DerivativeReference ==
    (pureOp = "calculateDerivative" /\ StrictlyIncreasingX(pureIn)) =>
        LET n == Len(pureIn)
            x(i) == pureIn[i + 1].x
            y(i) == pureIn[i + 1].y
            out(i) == pureOut[i + 1]
        IN  IF n < 2 THEN pureOut = <<>>
            ELSE /\ Len(pureOut) = n
                 /\ \A i \in 0..(n - 1) : out(i).x = x(i)
                 /\ out(0).y = RDiv(RSub(y(1), y(0)), RSub(x(1), x(0)))
                 /\ out(n - 1).y = RDiv(RSub(y(n - 1), y(n - 2)),
                                        RSub(x(n - 1), x(n - 2)))
                 /\ \A i \in 1..(n - 2) :
                        out(i).y = RDiv(RSub(y(i + 1), y(i - 1)),
                                        RSub(x(i + 1), x(i - 1)))

\* [(0,0),(1,1),(2,4)] has been differentiated to [(0,1),(1,2),(2,3)]
C7_Witness ==
    /\ pureOp = "calculateDerivative"
    /\ pureIn = <<Point(R(0), R(0)), Point(R(1), R(1)), Point(R(2), R(4))>>
    /\ pureOut = <<Point(R(0), R(1)), Point(R(1), R(2)), Point(R(2), R(3))>>

\* C8: on an input of n points and a constant C, calculateIntegral returns
\* the empty sequence for n < 1, and for n >= 1 a sequence of n points with
\* the input's x-values, whose first y is C and whose y at i >= 1 is the y
\* at i - 1 plus ((y[i] + y[i-1]) / 2) * (x[i] - x[i-1]).
C8_IntegralReference ==
    pureOp = "calculateIntegral" =>
        LET n == Len(pureIn)
            x(i) == pureIn[i + 1].x
            y(i) == pureIn[i + 1].y
            out(i) == pureOut[i + 1]
        IN  IF n < 1 THEN pureOut = <<>>
            ELSE /\ Len(pureOut) = n
                 /\ \A i \in 0..(n - 1) : out(i).x = x(i)
                 /\ out(0).y = pureC
                 /\ \A i \in 1..(n - 1) :
                        out(i).y =
                            RAdd(out(i - 1).y,
                                 RMul(RDiv(RAdd(y(i), y(i - 1)), R(2)),
                                      RSub(x(i), x(i - 1))))

\* A one-point input has been integrated with a non-zero constant to the
\* single point (x, C)
C8_Witness ==
    /\ pureOp = "calculateIntegral"
    /\ Len(pureIn) = 1
    /\ pureC = R(4)
    /\ pureOut = <<Point(pureIn[1].x, R(4))>>

\* Coefficients of the linear functions y = a*x + b
Coefficients == {R(-1), Zero, <<1, 2>>, R(1), R(2)}

\* seq is sampled from y = a*x + b
SampledFromLine(seq, a, b) ==
    \A k \in 1..Len(seq) : seq[k].y = RAdd(RMul(a, seq[k].x), b)

\* C9, as claimed: for seq sampled from y = a*x + b (n >= 2),
\* calculateIntegral(calculateDerivative(seq), b) = seq.
C9_RoundTripWithIntercept ==
    (pureOp = "roundTrip" /\ Len(pureIn) >= 2) =>
        \A a \in Coefficients, b \in Coefficients :
            (SampledFromLine(pureIn, a, b) /\ pureC = b) => pureOut = pureIn

\* C9, amended: for seq sampled from y = a*x + b (n >= 2),
\* calculateIntegral(calculateDerivative(seq), seq[0].y) = seq.
C9_RoundTripWithFirstY ==
    (pureOp = "roundTrip" /\ Len(pureIn) >= 2) =>
        \A a \in Coefficients, b \in Coefficients :
            (SampledFromLine(pureIn, a, b) /\ pureC = pureIn[1].y)
                => pureOut = pureIn

\* Three samples of a line of non-zero slope, the first not at x = 0, have
\* gone through the round trip with C = seq[0].y, which is not b
C9_Witness ==
    /\ pureOp = "roundTrip"
    /\ Len(pureIn) = 3
    /\ pureIn[1].x # Zero
    /\ pureC = pureIn[1].y
    /\ \E a \in Coefficients \ {Zero}, b \in Coefficients :
           SampledFromLine(pureIn, a, b) /\ pureC # b
    /\ pureOut = pureIn

\* The three sequences once the given drag, made in the given snapshot with
\* no effect pending, has been fully processed: the handler, then the effect
Processed(snapshot, event) ==
    LET points ==
            CASE event.kind = "function" ->
                    FunctionDragUpdater(snapshot.functionPoints,
                                        event.index, event.newY).next
              [] event.kind = "derivative" ->
                    ReconstructFromDerivative(snapshot.derivativePoints,
                        snapshot.functionPoints, event.index, event.newY)
              [] event.kind = "integral" ->
                    ReconstructFromIntegral(snapshot.integralPoints,
                                            event.index, event.newY)
        r == EffectResult(points, snapshot.derivativePoints,
                          snapshot.integralPoints)
    IN  [functionPoints |-> points,
         derivativePoints |-> r.derivativePoints,
         integralPoints |-> r.integralPoints]

\* C10, as claimed: once a drag of any of the three views has been fully
\* processed, the same drag invoked again leaves the three sequences as they
\* are.
C10_EditsIdempotent ==
    (lastEvent.kind \in DragKinds /\ ~effectPending) =>
        Processed(Snapshot, lastEvent) = Snapshot

\* C10, amended: once a drag of PRIMARY has been fully processed, the same
\* drag invoked again leaves the three sequences as they are.
C10_FunctionEditIdempotent ==
    (lastEvent.kind = "function" /\ ~effectPending) =>
        Processed(Snapshot, lastEvent) = Snapshot

\* A drag of PRIMARY that changed a point has been fully processed
C10_Witness ==
    /\ lastEvent.kind = "function"
    /\ ~effectPending
    /\ before.functionPoints[lastEvent.index + 1].y # lastEvent.newY
    /\ derivativePoints = calculateDerivative(functionPoints)

\* C11: the view a DERIVATIVE (resp. ANTIDERIVATIVE) edit read and modified
\* was the one derived from the PRIMARY of that moment: the regeneration of
\* the derived views had completed when the handler ran.
C11_NoStaleRead ==
    /\ lastEvent.kind = "derivative" =>
           before.derivativePoints = calculateDerivative(before.functionPoints)
    /\ lastEvent.kind = "integral" =>
           before.integralPoints =
               calculateIntegral(before.functionPoints, Zero)

\* C12: a step of an analysis request (its start, its success, its failure)
\* leaves PRIMARY, DERIVATIVE and ANTIDERIVATIVE as they are; every pending
\* request is one call of generateContent in flight; a drag or preset load
\* made while a request is pending is carried out as the handler computes it
\* and leaves the request as it is, and the three views are consistent once
\* the regeneration has run; a call that fails ends the request with the
\* fixed fallback message and no further call; and generateContent is only
\* ever called once per click on the analysis button.
C12_AnalysisIsolated ==
    /\ [][(isAnalyzing' # isAnalyzing \/ aiCalls' # aiCalls
              \/ aiOutcome' # aiOutcome) => UNCHANGED engineVars]_vars
    /\ [](isAnalyzing =>
            /\ aiOutcome = "pending"
            /\ ~effectPending =>
                   /\ derivativePoints = calculateDerivative(functionPoints)
                   /\ integralPoints = calculateIntegral(functionPoints, Zero))
    /\ [][(isAnalyzing /\ nEvents' # nEvents) =>
              /\ isAnalyzing' /\ UNCHANGED callVars
              /\ effectPending'
              /\ lastEvent'.kind \in DragKinds =>
                     /\ functionPoints' =
                            Processed(Snapshot, lastEvent').functionPoints
                     /\ aiAnalysis' = aiAnalysis
              /\ lastEvent'.kind = "load" =>
                     \E p \in 1..Len(PRESETS) :
                         functionPoints' = generateFunctionPoints(
                             PRESETS[p], MIN_X, MAX_X, POINTS_COUNT)]_vars
    /\ [][(aiOutcome = "pending" /\ aiOutcome' = "error") =>
              /\ aiAnalysis' = ErrorText
              /\ ~isAnalyzing'
              /\ aiCalls' = aiCalls]_vars
    /\ [][aiCalls' # aiCalls =>
              /\ aiCalls' = aiCalls + 1
              /\ ~isAnalyzing /\ isAnalyzing'
              /\ nEvents' = nEvents + 1]_vars

\* A request is pending, and a drag made since it was issued has changed
\* PRIMARY and has been fully processed
C12_Witness ==
    /\ isAnalyzing
    /\ aiOutcome = "pending"
    /\ lastEvent.kind \in DragKinds
    /\ functionPoints # aiRequest
    /\ ~effectPending
    /\ derivativePoints = calculateDerivative(functionPoints)

\* The grid of x-values every preset is sampled on
SampledGrid == generateFunctionPoints(PRESETS[1], MIN_X, MAX_X, POINTS_COUNT)

OnSampledGrid(points) ==
    /\ StrictlyIncreasingX(points)
    /\ SameXValues(points, SampledGrid)

\* PRIMARY is on the sampled grid from the first load on, and the derived
\* views are from the first regeneration on, whether or not a later
\* regeneration is pending
PointSequenceOnceRegenerated ==
    /\ mounted => OnSampledGrid(functionPoints)
    /\ (mounted /\ (~effectPending \/ Len(derivativePoints) > 0)) =>
           /\ OnSampledGrid(derivativePoints)
           /\ OnSampledGrid(integralPoints)

\* C13: in every state after a preset load and any in-range edits, PRIMARY,
\* DERIVATIVE and ANTIDERIVATIVE each have strictly increasing x-values, the
\* length of the sampled sequence and, at every index, the x-value of the
\* sampled grid.
C13_PointSequenceInvariant ==
    mounted =>
        /\ OnSampledGrid(functionPoints)
        /\ OnSampledGrid(derivativePoints)
        /\ OnSampledGrid(integralPoints)

====
